---- MODULE Spec2Model ----
(***************************************************************************)
(* Model of api/index.py: the chat_states table, the two admin endpoints   *)
(* (/admin/switch_mode, /admin/revert_to_ai), the webhook ingress and the  *)
(* background task process_text_message.  Every handler is cut at its      *)
(* awaits: the code before an await and the store's answer to it are one   *)
(* step each, so other handlers and the clock may run in between.          *)
(***************************************************************************)
EXTENDS Integers, Sequences, FiniteSets, TLC

\* ---------------------------------------------------------------- bounds
MaxClock == 3
NumSwitch == 1
NumSweeps == 1
NumBatches == 1
MaxEvents == 2

\* ------------------------------------------------------- program constants
timeout_minutes == 2
ADMIN_SECRET_KEY == "secret"

Users == {"u1", "u2"}
NoTs == -1                      \* last_human_reply_at is NULL
None == "None"                  \* a header or a body field that is missing
Switches == 1..NumSwitch
Sweeps == 1..NumSweeps
Batches == 1..NumBatches

\* Values a caller may put in the X-Admin-API-Key header (None: no header).
AdminHeaders == {None, "wrong", ADMIN_SECRET_KEY}
\* Values of data.get("user_id") and data.get("mode") of a request body.
BodyUsers == Users \cup {None, ""}
BodyModes == {"ai", "human", "other", None}

NoRow == [present |-> FALSE, mode |-> "none", ts |-> NoTs]

VARIABLES
    clock,      \* datetime.now(timezone.utc), in minutes
    rows,       \* table chat_states: user_id -> row (mode, last_human_reply_at)
    transAt,    \* history: clock at the row's latest change into mode human
    sw,         \* the switch_chat_mode calls
    rv,         \* the revert_inactive_chats_to_ai calls
    batch       \* the line_webhook requests and their background tasks

vars == <<clock, rows, transAt, sw, rv, batch>>

\* ------------------------------------------------------------ state store
\* .upsert(update_data): insert the row, or on a key conflict overwrite the
\* columns update_data names and keep the others.
UpsertBug(row, mode, ts) ==
    [present |-> TRUE, mode |-> mode, ts |-> NoTs]

Upsert(row, mode, ts) ==
    [present |-> TRUE,
     mode |-> mode,
     ts |-> IF ts # NoTs THEN ts ELSE row.ts]

\* .select("user_id").eq("mode", "human").lt("last_human_reply_at", threshold)
\* (a NULL timestamp matches no comparison)
SelectStale(table, threshold) ==
    {u \in Users : /\ table[u].present
                   /\ table[u].mode = "human"
                   /\ table[u].ts # NoTs
                   /\ table[u].ts < threshold}

BatchUpdateNone(table, users) == table

BatchUpdateAll(table, users) ==
    [u \in Users |-> IF table[u].present
                     THEN [table[u] EXCEPT !.mode = "ai"]
                     ELSE table[u]]

\* .update({"mode": "ai"}).in_("user_id", users_to_revert)
BatchUpdate(table, users) ==
    [u \in Users |-> IF u \in users /\ table[u].present
                     THEN [table[u] EXCEPT !.mode = "ai"]
                     ELSE table[u]]

\* .select("mode").eq("user_id", user_id): the list response.data
SelectMode(table, user_id) ==
    IF table[user_id].present THEN <<[mode |-> table[user_id].mode]>> ELSE <<>>

\* history: the clock at which a row now in mode human changed into it
NewTransAt(old, new, prev) ==
    [u \in Users |-> IF new[u].mode # "human" THEN NoTs
                     ELSE IF old[u].mode # "human" THEN clock
                     ELSE prev[u]]

\* ------------------------------------------------------------- admin key
get_admin_keyBug(header) == TRUE

\* get_admin_key: TRUE when the request passes, FALSE when it raises 403
get_admin_key(header) == header = ADMIN_SECRET_KEY

\* ------------------------------------------------ /admin/switch_mode
IdleSwitch ==
    [pc |-> "idle", hdr |-> None, user |-> None, mode |-> None, ts |-> NoTs,
     start |-> 0, since |-> "none", succ |-> FALSE]

InvalidBodyBug(user_id, mode) == user_id \in {None, ""}

\* `not user_id or mode not in ["ai", "human"]`
InvalidBody(user_id, mode) ==
    user_id \in {None, ""} \/ mode \notin {"ai", "human"}

UpdateTsEpoch(mode) == IF mode = "human" THEN 0 ELSE NoTs

\* update_data["last_human_reply_at"], set only when mode == 'human'
UpdateTs(mode) == IF mode = "human" THEN clock ELSE NoTs

\* history kept in the calls: what has been written to a row since a call's
\* own upsert (since), and whether the row is still as the preceding call
\* with the same arguments left it (succ).
NoteWrites(calls, writer, users, mode) ==
    [j \in Switches |->
        IF j # writer /\ calls[j].user \in users
        THEN IF calls[j].pc = "r200"
             THEN [calls[j] EXCEPT !.since =
                      IF mode = "ai" THEN "ai"
                      ELSE IF @ = "none" THEN "human" ELSE @]
             ELSE IF calls[j].pc = "upsert"
             THEN [calls[j] EXCEPT !.succ = FALSE]
             ELSE calls[j]
        ELSE calls[j]]

Follows(user_id, mode) ==
    \E j \in Switches : /\ sw[j].pc = "r200"
                         /\ sw[j].user = user_id
                         /\ sw[j].mode = mode
                         /\ sw[j].since = "none"

\* lines 33-37 and 161-172: the dependency, the body checks and update_data,
\* up to the await of the upsert
SwitchRequest(i, hdr, user_id, mode) ==
    /\ sw[i].pc # "upsert"
    /\ sw' = [sw EXCEPT ![i] =
          IF ~get_admin_key(hdr)
          THEN [IdleSwitch EXCEPT !.pc = "r403", !.hdr = hdr]
          ELSE IF InvalidBody(user_id, mode)
          THEN [IdleSwitch EXCEPT !.pc = "r400", !.hdr = hdr,
                                  !.user = user_id, !.mode = mode]
          ELSE [IdleSwitch EXCEPT !.pc = "upsert", !.hdr = hdr,
                                  !.user = user_id, !.mode = mode,
                                  !.ts = UpdateTs(mode), !.start = clock,
                                  !.succ = Follows(user_id, mode)]]
    /\ UNCHANGED <<clock, rows, transAt, rv, batch>>

\* line 174 answered by the store, then lines 176-177
SwitchUpsertOk(i) ==
    /\ sw[i].pc = "upsert"
    /\ LET u == sw[i].user
           new == Upsert(rows[u], sw[i].mode, sw[i].ts)
           table == [rows EXCEPT ![u] = new]
       IN /\ rows' = table
          /\ transAt' = NewTransAt(rows, table, transAt)
          /\ sw' = [NoteWrites(sw, i, {u}, sw[i].mode) EXCEPT
                      ![i].pc = "r200",
                      ![i].since = "none"]
    /\ UNCHANGED <<clock, rv, batch>>

\* line 174 raising, then lines 178-180
SwitchUpsertFail(i) ==
    /\ sw[i].pc = "upsert"
    /\ sw' = [sw EXCEPT ![i].pc = "r500"]
    /\ UNCHANGED <<clock, rows, transAt, rv, batch>>

\* line 174 raising although the store applied the upsert (the answer was
\* lost or timed out), then lines 178-180
SwitchUpsertLost(i) ==
    /\ sw[i].pc = "upsert"
    /\ LET u == sw[i].user
           table == [rows EXCEPT ![u] = Upsert(rows[u], sw[i].mode, sw[i].ts)]
       IN /\ rows' = table
          /\ transAt' = NewTransAt(rows, table, transAt)
          /\ sw' = [NoteWrites(sw, i, {u}, sw[i].mode) EXCEPT ![i].pc = "r500"]
    /\ UNCHANGED <<clock, rv, batch>>

\* ------------------------------------------------ /admin/revert_to_ai
IdleSweep ==
    [pc |-> "idle", hdr |-> None, threshold |-> 0, users |-> {}]

ThresholdFixed(now) == 0 - timeout_minutes

\* line 185: revert_time_threshold
Threshold(now) == now - timeout_minutes

\* lines 33-37 and 184-188: the dependency and the threshold, up to the await
\* of the select
RevertRequest(s, hdr) ==
    /\ rv[s].pc \notin {"select", "update"}
    /\ rv' = [rv EXCEPT ![s] =
          IF ~get_admin_key(hdr)
          THEN [IdleSweep EXCEPT !.pc = "r403", !.hdr = hdr]
          ELSE [IdleSweep EXCEPT !.pc = "select", !.hdr = hdr,
                                 !.threshold = Threshold(clock)]]
    /\ UNCHANGED <<clock, rows, transAt, sw, batch>>

\* line 188 answered by the store, then lines 190-195 up to the await of the
\* update (or the return of line 193)
RevertSelectOk(s) ==
    /\ rv[s].pc = "select"
    /\ LET users_to_revert == SelectStale(rows, rv[s].threshold)
       IN rv' = [rv EXCEPT ![s].users = users_to_revert,
                           ![s].pc = IF users_to_revert = {} THEN "r200"
                                     ELSE "update"]
    /\ UNCHANGED <<clock, rows, transAt, sw, batch>>

\* line 195 answered by the store, then lines 197-198
RevertUpdateOk(s) ==
    /\ rv[s].pc = "update"
    /\ rows' = BatchUpdate(rows, rv[s].users)
    /\ transAt' = NewTransAt(rows, rows', transAt)
    /\ sw' = NoteWrites(sw, 0, rv[s].users, "ai")
    /\ rv' = [rv EXCEPT ![s].pc = "r200"]
    /\ UNCHANGED <<clock, batch>>

\* line 188 or line 195 raising, then lines 200-202
RevertStoreFail(s) ==
    /\ rv[s].pc \in {"select", "update"}
    /\ rv' = [rv EXCEPT ![s].pc = "r500"]
    /\ UNCHANGED <<clock, rows, transAt, sw, batch>>

\* line 195 raising although the store applied the update, then lines 200-202
RevertUpdateLost(s) ==
    /\ rv[s].pc = "update"
    /\ rows' = BatchUpdate(rows, rv[s].users)
    /\ transAt' = NewTransAt(rows, rows', transAt)
    /\ sw' = NoteWrites(sw, 0, rv[s].users, "ai")
    /\ rv' = [rv EXCEPT ![s].pc = "r500"]
    /\ UNCHANGED <<clock, batch>>

reverted_usersLeak(call) == call.users

\* the users a call's answer names as reverted: "reverted_users" of line 198,
\* none in the answers of lines 193 and 202
reverted_users(call) == IF call.pc = "r200" THEN call.users ELSE {}

\* ------------------------------------------------------- get_chat_mode
\* dict.get(key, default)
DictGet(d, key, default) == IF key \in DOMAIN d THEN d[key] ELSE default

get_chat_modeBug(ok, data) == "ai"

get_chat_modeNoDefault(ok, data) ==
    IF ok /\ data # <<>> THEN DictGet(data[1], "mode", "ai") ELSE None

\* lines 46-59 once the select has answered (ok, response.data) or raised
get_chat_mode(ok, data) ==
    IF ~ok THEN "ai"
    ELSE IF data # <<>> THEN DictGet(data[1], "mode", "ai")
    ELSE "ai"

\* --------------------------------------------------- handle_user_query
NotFoundText == "not found"
ApologyText == "apology"
AnswerText == "answer"

ResponderTextBug(lookup, completion) ==
    IF lookup = "empty" THEN NotFoundText ELSE AnswerText

\* what handle_user_query returns: line 78 when the cars select is empty,
\* line 89 after the completion, line 92 when either call raised
ResponderText(lookup, completion) ==
    IF lookup = "fail" \/ completion = "fail" THEN ApologyText
    ELSE IF lookup = "empty" THEN NotFoundText
    ELSE AnswerText

\* ------------------------------------------------------- /api/webhook
\* X-Line-Signature: no header, an empty header, a signature that does not
\* match the body, the signature of the body
Signatures == {None, "", "bad", "good"}
EventTypes == {"text", "other"}

\* the request bodies: up to MaxEvents events, each of a type and of a user
Bodies ==
    UNION {[1..n -> [type : EventTypes, user : Users]] : n \in 0..MaxEvents}

IdleBatch == [pc |-> "idle", sig |-> None, events |-> <<>>, outbox |-> <<>>]

NewEvent(b, k, e) ==
    [type |-> e.type, user |-> e.user, reply_token |-> 10 * b + k,
     pc |-> "body", atDispatch |-> "none", read |-> "none", mode |-> None,
     lookup |-> "none", completion |-> "none", text |-> None, calls |-> 0]

\* `not signature`
SignatureMissing(sig) == sig \in {None, ""}

\* parser.parse(body, signature) raising InvalidSignatureError
InvalidSignatureBug(sig) == FALSE

InvalidSignature(sig) == sig # "good"

IsTextMessageBug(e) == TRUE

\* line 219: the events handed to background_tasks.add_task
IsTextMessage(e) == e.type = "text"

Terminal(e) == e.pc \in {"body", "skipped", "dropped", "done", "raised"}

\* the tasks of a request run one after the other, in the order added
Running(b) == {k \in DOMAIN batch[b].events : ~Terminal(batch[b].events[k])
                                               /\ batch[b].events[k].pc # "scheduled"}
Waiting(b) == {k \in DOMAIN batch[b].events : batch[b].events[k].pc = "scheduled"}
Settled(b) ==
    \/ batch[b].pc \in {"idle", "r400", "aborted"}
    \/ batch[b].pc = "ok" /\ Running(b) = {} /\ Waiting(b) = {}

Min(S) == CHOOSE x \in S : \A y \in S : x <= y

\* lines 205-222
WebhookRequest(b, sig, body) ==
    /\ Settled(b)
    /\ LET evs == [k \in DOMAIN body |-> NewEvent(b, k, body[k])]
       IN batch' = [batch EXCEPT ![b] =
          IF SignatureMissing(sig) \/ InvalidSignature(sig)
          THEN [IdleBatch EXCEPT !.pc = "r400", !.sig = sig, !.events = evs]
          ELSE [IdleBatch EXCEPT !.pc = "ok", !.sig = sig,
                  !.events = [k \in DOMAIN evs |->
                      [evs[k] EXCEPT !.pc = IF IsTextMessage(evs[k])
                                            THEN "scheduled" ELSE "skipped"]]]]
    /\ UNCHANGED <<clock, rows, transAt, sw, rv>>

\* history: what the table holds for a user ("norow", "ai" or "human")
RowMode(row) == IF row.present THEN row.mode ELSE "norow"

\* lines 139-143: the next task of the request starts, up to the await of
\* the select in get_chat_mode (line 48)
TaskStart(b) ==
    /\ batch[b].pc = "ok"
    /\ Running(b) = {}
    /\ Waiting(b) # {}
    /\ LET k == Min(Waiting(b))
       IN batch' = [batch EXCEPT ![b].events[k].pc = "get_mode",
                      ![b].events[k].atDispatch =
                          RowMode(rows[batch[b].events[k].user])]
    /\ UNCHANGED <<clock, rows, transAt, sw, rv>>

\* line 48 answered or raising, then lines 51-59 and 145-151 up to the await
\* of the cars select (line 69)
GetModeReturn(b, k, ok) ==
    /\ k \in DOMAIN batch[b].events
    /\ batch[b].events[k].pc = "get_mode"
    /\ LET e == batch[b].events[k]
           current_mode == get_chat_mode(ok, SelectMode(rows, e.user))
       IN batch' = [batch EXCEPT ![b].events[k] =
             [e EXCEPT !.read = IF ok THEN RowMode(rows[e.user]) ELSE "fail",
                       !.mode = current_mode,
                       !.pc = IF current_mode = "human" THEN "dropped"
                              ELSE "lookup"]]
    /\ UNCHANGED <<clock, rows, transAt, sw, rv>>

\* lines 69-78: the cars select answered with rows, with none, or raising,
\* up to the await of the completion (line 84) or the return
LookupReturn(b, k, outcome) ==
    /\ k \in DOMAIN batch[b].events
    /\ batch[b].events[k].pc = "lookup"
    /\ batch' = [batch EXCEPT ![b].events[k] =
          [@ EXCEPT !.lookup = outcome,
                    !.text = IF outcome = "found" THEN None
                             ELSE ResponderText(outcome, "none"),
                    !.pc = IF outcome = "found" THEN "completion"
                           ELSE "reply"]]
    /\ UNCHANGED <<clock, rows, transAt, sw, rv>>

\* lines 84-92: the completion answered or raising
CompletionReturn(b, k, ok) ==
    /\ k \in DOMAIN batch[b].events
    /\ batch[b].events[k].pc = "completion"
    /\ batch' = [batch EXCEPT ![b].events[k] =
          [@ EXCEPT !.completion = IF ok THEN "ok" ELSE "fail",
                    !.text = ResponderText("found", IF ok THEN "ok" ELSE "fail"),
                    !.pc = "reply"]]
    /\ UNCHANGED <<clock, rows, transAt, sw, rv>>

\* lines 153-158: reply_message sends, or raises out of the task; a task that
\* raises ends the run of the request's background tasks
ReplyMessage(b, k, ok) ==
    /\ k \in DOMAIN batch[b].events
    /\ batch[b].events[k].pc = "reply"
    /\ LET e == batch[b].events[k]
       IN batch' = [batch EXCEPT
             ![b].events[k].calls = @ + 1,
             ![b].events[k].pc = IF ok THEN "done" ELSE "raised",
             ![b].pc = IF ok THEN @ ELSE "aborted",
             ![b].outbox = IF ok
                           THEN Append(@, [reply_token |-> e.reply_token,
                                           text |-> e.text])
                           ELSE @]
    /\ UNCHANGED <<clock, rows, transAt, sw, rv>>

\* ------------------------------------------------------------------ clock
Tick ==
    /\ clock < MaxClock
    /\ clock' = clock + 1
    /\ UNCHANGED <<rows, transAt, sw, rv, batch>>

\* ---------------------------------------------------------- specification
Init ==
    /\ clock = 0
    /\ rows = [u \in Users |-> NoRow]
    /\ transAt = [u \in Users |-> NoTs]
    /\ sw = [i \in Switches |-> IdleSwitch]
    /\ rv = [s \in Sweeps |-> IdleSweep]
    /\ batch = [b \in Batches |-> IdleBatch]

Next ==
    \/ Tick
    \/ \E i \in Switches, hdr \in AdminHeaders, u \in BodyUsers, m \in BodyModes :
          SwitchRequest(i, hdr, u, m)
    \/ \E i \in Switches : SwitchUpsertOk(i)
    \/ \E i \in Switches : SwitchUpsertFail(i)
    \/ \E s \in Sweeps, hdr \in AdminHeaders : RevertRequest(s, hdr)
    \/ \E s \in Sweeps : RevertSelectOk(s)
    \/ \E s \in Sweeps : RevertUpdateOk(s)
    \/ \E s \in Sweeps : RevertStoreFail(s)
    \/ \E i \in Switches : SwitchUpsertLost(i)
    \/ \E s \in Sweeps : RevertUpdateLost(s)
    \/ \E b \in Batches, sig \in Signatures, body \in Bodies :
          WebhookRequest(b, sig, body)
    \/ \E b \in Batches : TaskStart(b)
    \/ \E b \in Batches, k \in 1..MaxEvents, ok \in BOOLEAN :
          GetModeReturn(b, k, ok)
    \/ \E b \in Batches, k \in 1..MaxEvents, o \in {"fail", "empty", "found"} :
          LookupReturn(b, k, o)
    \/ \E b \in Batches, k \in 1..MaxEvents, ok \in BOOLEAN :
          CompletionReturn(b, k, ok)
    \/ \E b \in Batches, k \in 1..MaxEvents, ok \in BOOLEAN :
          ReplyMessage(b, k, ok)

Spec == Init /\ [][Next]_vars

NextAdmin ==
    \/ Tick
    \/ \E i \in Switches, hdr \in AdminHeaders, u \in BodyUsers, m \in BodyModes :
          SwitchRequest(i, hdr, u, m)
    \/ \E i \in Switches : SwitchUpsertOk(i)
    \/ \E i \in Switches : SwitchUpsertFail(i)
    \/ \E s \in Sweeps, hdr \in AdminHeaders : RevertRequest(s, hdr)
    \/ \E s \in Sweeps : RevertSelectOk(s)
    \/ \E s \in Sweeps : RevertUpdateOk(s)
    \/ \E s \in Sweeps : RevertStoreFail(s)
    \/ \E i \in Switches : SwitchUpsertLost(i)
    \/ \E s \in Sweeps : RevertUpdateLost(s)

SpecAdmin == Init /\ [][NextAdmin]_vars

NextHook ==
    \/ \E b \in Batches, sig \in Signatures, body \in Bodies :
          WebhookRequest(b, sig, body)
    \/ \E b \in Batches : TaskStart(b)
    \/ \E b \in Batches, k \in 1..MaxEvents, ok \in BOOLEAN :
          GetModeReturn(b, k, ok)
    \/ \E b \in Batches, k \in 1..MaxEvents, o \in {"fail", "empty", "found"} :
          LookupReturn(b, k, o)
    \/ \E b \in Batches, k \in 1..MaxEvents, ok \in BOOLEAN :
          CompletionReturn(b, k, ok)
    \/ \E b \in Batches, k \in 1..MaxEvents, ok \in BOOLEAN :
          ReplyMessage(b, k, ok)

SpecHook == Init /\ [][NextHook]_vars

\* The dispatcher beside the admin surface: the requests of one operator
\* holding the key and the messages of the user they handle.
HandledUser == "u1"
HandledBodies ==
    UNION {[1..n -> [type : EventTypes, user : {HandledUser}]] : n \in 0..MaxEvents}

NextDispatch ==
    \/ \E i \in Switches, m \in {"ai", "human"} :
          SwitchRequest(i, ADMIN_SECRET_KEY, HandledUser, m)
    \/ \E i \in Switches : SwitchUpsertOk(i)
    \/ \E s \in Sweeps : RevertRequest(s, ADMIN_SECRET_KEY)
    \/ \E s \in Sweeps : RevertSelectOk(s)
    \/ \E s \in Sweeps : RevertUpdateOk(s)
    \/ \E b \in Batches, body \in HandledBodies : WebhookRequest(b, "good", body)
    \/ \E b \in Batches : TaskStart(b)
    \/ \E b \in Batches, k \in 1..MaxEvents, ok \in BOOLEAN :
          GetModeReturn(b, k, ok)
    \/ \E b \in Batches, k \in 1..MaxEvents, o \in {"fail", "empty", "found"} :
          LookupReturn(b, k, o)
    \/ \E b \in Batches, k \in 1..MaxEvents, ok \in BOOLEAN :
          CompletionReturn(b, k, ok)
    \/ \E b \in Batches, k \in 1..MaxEvents, ok \in BOOLEAN :
          ReplyMessage(b, k, ok)

\* The process starts against the table earlier runs left: the handled user
\* has no row yet, or was handed to the operator timeout_minutes ago or more.
InitDispatch ==
    /\ clock = MaxClock
    /\ \E r \in {NoRow, [present |-> TRUE, mode |-> "human", ts |-> 0]} :
          /\ rows = [u \in Users |-> IF u = HandledUser THEN r ELSE NoRow]
          /\ transAt = [u \in Users |-> IF u = HandledUser /\ r.present
                                        THEN 0 ELSE NoTs]
    /\ sw = [i \in Switches |-> IdleSwitch]
    /\ rv = [s \in Sweeps |-> IdleSweep]
    /\ batch = [b \in Batches |-> IdleBatch]

SpecDispatch == InitDispatch /\ [][NextDispatch]_vars

\* ------------------------------------------------------------- properties
\* the replies sent with a reply token, as positions of the outbox
Sent(b, token) ==
    {n \in DOMAIN batch[b].outbox : batch[b].outbox[n].reply_token = token}

\* handle_user_query has been called for the event
ResponderInvoked(e) == e.pc \in {"lookup", "completion", "reply", "done", "raised"}

\* C1 (as amended): an event whose state-store read succeeded and returned the
\* user's row with mode human is dropped: the Responder is not invoked for it
\* and no reply is attempted or sent with its reply token.
C1_HumanReadIsSilent ==
    \A b \in Batches : \A k \in DOMAIN batch[b].events :
        LET e == batch[b].events[k]
        IN e.read = "human" =>
              /\ e.pc = "dropped"
              /\ ~ResponderInvoked(e)
              /\ e.calls = 0
              /\ Sent(b, e.reply_token) = {}

C1_Witness ==
    \E b \in Batches : \E k \in DOMAIN batch[b].events :
        /\ batch[b].events[k].atDispatch = "human"
        /\ batch[b].events[k].read = "human"
        /\ batch[b].events[k].pc = "dropped"

\* C1 (as claimed): an event whose user's row had mode human when the event
\* was dispatched never has the Responder or the reply invoked, whatever the
\* read's outcome and whatever admin or sweep operation interleaves.
C1_Original ==
    \A b \in Batches : \A k \in DOMAIN batch[b].events :
        LET e == batch[b].events[k]
        IN e.atDispatch = "human" => ~ResponderInvoked(e) /\ e.calls = 0

\* C2 (as claimed): the sweep's batch update changes a row only if, at that
\* moment, the row has mode human and a timestamp older than now minus
\* timeout_minutes.
C2_Original ==
    [][\A s \in Sweeps : rv[s].pc = "update" /\ rv'[s].pc = "r200" =>
          \A u \in Users : rows'[u] # rows[u] =>
              /\ rows[u].mode = "human"
              /\ rows[u].ts # NoTs
              /\ rows[u].ts < clock - timeout_minutes]_vars

\* C3 (as amended): for an event resolved to automated mode the reply call is
\* made at most once, every reply sent carries the event's own reply token and
\* the Responder's output (the apology when its lookup or completion failed);
\* a task that ended after a successful send sent exactly one reply, and a
\* task whose send failed sent none.
C3_OneReplyAttempt ==
    \A b \in Batches :
        /\ \A n \in DOMAIN batch[b].outbox :
              \E k \in DOMAIN batch[b].events :
                  /\ batch[b].outbox[n].reply_token = 10 * b + k
                  /\ batch[b].events[k].mode = "ai"
                  /\ batch[b].outbox[n].text =
                        IF \/ batch[b].events[k].lookup = "fail"
                           \/ batch[b].events[k].completion = "fail"
                        THEN ApologyText
                        ELSE IF batch[b].events[k].lookup = "empty"
                        THEN NotFoundText ELSE AnswerText
        /\ \A k \in DOMAIN batch[b].events :
              LET e == batch[b].events[k]
              IN e.mode = "ai" =>
                    /\ e.reply_token = 10 * b + k
                    /\ e.calls <= 1
                    /\ e.pc # "dropped"
                    /\ Cardinality(Sent(b, e.reply_token)) =
                          IF e.pc = "done" THEN 1 ELSE 0
                    /\ e.pc \in {"done", "raised"} <=> e.calls = 1

C3_Witness ==
    \E b \in Batches : \E k \in DOMAIN batch[b].events :
        /\ batch[b].events[k].mode = "ai"
        /\ batch[b].events[k].pc = "done"
        /\ batch[b].events[k].completion = "fail"
        /\ Cardinality(Sent(b, batch[b].events[k].reply_token)) = 1

\* C3 (as claimed): every event resolved to automated mode whose task has
\* ended has had exactly one reply sent; the reply is never omitted.
C3_Original ==
    \A b \in Batches : \A k \in DOMAIN batch[b].events :
        LET e == batch[b].events[k]
        IN e.mode = "ai" /\ Terminal(e) =>
              Cardinality(Sent(b, e.reply_token)) = 1

\* C4: once a switch_mode(u, human) call has succeeded, get_mode(u) with a
\* successful read returns human as long as no switch to ai and no sweep has
\* written the row since; and the timestamp the call left in the row is a
\* clock value read between the call's start and its end.
C4_SwitchToHumanTakesEffect ==
    \A i \in Switches :
        sw[i].pc = "r200" /\ sw[i].mode = "human" =>
            /\ sw[i].since # "ai" =>
                  get_chat_mode(TRUE, SelectMode(rows, sw[i].user)) = "human"
            /\ sw[i].since = "none" =>
                  /\ rows[sw[i].user].ts # NoTs
                  /\ sw[i].start <= rows[sw[i].user].ts
                  /\ rows[sw[i].user].ts <= clock

C4_Witness ==
    \E i \in Switches :
        /\ sw[i].pc = "r200" /\ sw[i].mode = "human" /\ sw[i].since = "none"
        /\ rows[sw[i].user].mode = "human"
        /\ sw[i].start > 0
        /\ rows[sw[i].user].ts < clock

\* C5 (as amended): a switch_mode call that directly follows a completed call
\* with the same arguments leaves the row's mode as it was; for mode ai the
\* whole row is as the first call left it, for mode human the timestamp is
\* replaced by the second call's own clock reading.
C5_IdempotentOnMode ==
    [][\A i \in Switches :
          sw[i].pc = "upsert" /\ sw'[i].pc = "r200" /\ sw[i].succ =>
              LET before == rows[sw[i].user]
                  after == rows'[sw[i].user]
              IN /\ after.present /\ before.present
                 /\ after.mode = before.mode
                 /\ sw[i].mode = "ai" => after = before
                 /\ sw[i].mode = "human" =>
                       after.ts = sw[i].ts /\ after.ts >= before.ts]_vars

C5_Witness ==
    \E i \in Switches :
        /\ sw[i].pc = "r200" /\ sw[i].succ /\ sw[i].mode = "human"
        /\ rows[sw[i].user].ts > 0

\* C5 (as claimed): a switch_mode call that directly follows a completed call
\* with the same arguments leaves the stored row (mode and timestamp)
\* identical to the row the first call left.
C5_Original ==
    [][\A i \in Switches :
          sw[i].pc = "upsert" /\ sw'[i].pc = "r200" /\ sw[i].succ =>
              rows'[sw[i].user] = rows[sw[i].user]]_vars

\* C6: get_mode always returns one of the two modes: ai when the user has no
\* row, when the returned item has no mode field and when the lookup raised,
\* and the stored mode otherwise.
C6_GetModeDefaults ==
    /\ get_chat_mode(TRUE, <<[user_id |-> HandledUser]>>) = "ai"
    /\ \A b \in Batches : \A k \in DOMAIN batch[b].events :
          LET e == batch[b].events[k]
          IN e.read # "none" =>
                /\ e.mode \in {"ai", "human"}
                /\ e.read \in {"norow", "fail"} => e.mode = "ai"
                /\ e.read \in {"ai", "human"} => e.mode = e.read

C6_Witness ==
    \E b \in Batches : \E j, k \in DOMAIN batch[b].events :
        /\ batch[b].events[j].read = "norow" /\ batch[b].events[j].mode = "ai"
        /\ batch[b].events[k].read = "fail" /\ batch[b].events[k].mode = "ai"

\* C7 (as claimed): no background task ends by an exception that was not
\* caught, and a scheduled event whose predecessors have ended can always be
\* started, whatever failed in the tasks before it.
C7_Original ==
    \A b \in Batches :
        /\ \A k \in DOMAIN batch[b].events : batch[b].events[k].pc # "raised"
        /\ Waiting(b) # {} /\ Running(b) = {} => ENABLED TaskStart(b)

\* C8: an admin request whose X-Admin-API-Key header is missing or differs
\* from the secret is answered 403 whatever its body, never reaches a
\* state-store call, and leaves the table as it was.
C8_BadKeyTouchesNothing ==
    /\ [](/\ \A i \in Switches :
              sw[i].pc # "idle" /\ sw[i].hdr # ADMIN_SECRET_KEY =>
                  sw[i].pc = "r403"
          /\ \A s \in Sweeps :
              rv[s].pc # "idle" /\ rv[s].hdr # ADMIN_SECRET_KEY =>
                  rv[s].pc = "r403" /\ rv[s].users = {})
    /\ [][(\/ \E i \in Switches : sw'[i] # sw[i] /\ sw'[i].pc = "r403"
           \/ \E s \in Sweeps : rv'[s] # rv[s] /\ rv'[s].pc = "r403")
          => rows' = rows]_vars

C8_Witness ==
    /\ \E i \in Switches : sw[i].pc = "r403" /\ sw[i].hdr = "wrong"
    /\ \E s \in Sweeps : rv[s].pc = "r403" /\ rv[s].hdr = None
    /\ \E u \in Users : rows[u].present /\ rows[u].mode = "human"

\* C9 (as claimed): every row in mode human has a timestamp that is set and
\* is at or after the time the row last changed into mode human.
C9_Original ==
    \A u \in Users :
        rows[u].present /\ rows[u].mode = "human" =>
            rows[u].ts # NoTs /\ rows[u].ts >= transAt[u]

\* C10: a webhook request without a signature header, or with a signature
\* that fails verification, is answered 400 and none of the events of its
\* body is scheduled.
C10_RejectedSchedulesNothing ==
    \A b \in Batches :
        batch[b].pc # "idle" /\ batch[b].sig # "good" =>
            /\ batch[b].pc = "r400"
            /\ batch[b].outbox = <<>>
            /\ \A k \in DOMAIN batch[b].events : batch[b].events[k].pc = "body"

C10_Witness ==
    \E b \in Batches :
        /\ batch[b].pc = "r400" /\ batch[b].sig = None
        /\ \E k \in DOMAIN batch[b].events : batch[b].events[k].type = "text"

\* C11: an accepted webhook request schedules one task for each text-message
\* event of its body and none for any other event, and answers with the
\* acknowledgment before any of the tasks has started, whatever the number of
\* events; the tasks that later run or fail are those of the text events only.
C11_OneTaskPerTextEvent ==
    /\ [](\A b \in Batches : batch[b].pc \in {"ok", "aborted"} =>
             /\ batch[b].sig = "good"
             /\ \A k \in DOMAIN batch[b].events :
                   batch[b].events[k].type # "text" <=>
                       batch[b].events[k].pc = "skipped")
    /\ [][\A b \in Batches : \A body \in Bodies :
            WebhookRequest(b, "good", body) =>
                /\ batch'[b].pc = "ok"
                /\ batch'[b].outbox = <<>>
                /\ DOMAIN batch'[b].events = DOMAIN body
                /\ \A k \in DOMAIN body :
                      batch'[b].events[k].pc =
                          IF body[k].type = "text" THEN "scheduled"
                          ELSE "skipped"]_vars

C11_Witness ==
    \E b \in Batches :
        /\ batch[b].pc = "aborted"
        /\ \E j, k \in DOMAIN batch[b].events :
              /\ batch[b].events[j].type = "other"
              /\ batch[b].events[j].pc = "skipped"
              /\ batch[b].events[k].type = "text"
              /\ batch[b].events[k].pc = "raised"

\* C12 (as claimed): the users a sweep returns are exactly the users whose row
\* its own update changed from human to ai, and a sweep whose select matches no
\* row returns none and changes no row.
C12_Original ==
    [][\A s \in Sweeps :
          /\ rv[s].pc = "update" /\ rv'[s].pc = "r200" =>
                rv'[s].users = {u \in Users : /\ rows[u].mode = "human"
                                              /\ rows'[u].mode = "ai"}
          /\ rv[s].pc = "select" /\ rv'[s].pc = "r200" =>
                rv'[s].users = {} /\ rows' = rows]_vars

HandoffBody == <<[type |-> "text", user |-> HandledUser]>>

NextHandoff ==
    \/ Tick
    \/ \E i \in Switches :
          /\ \A j \in Switches : sw[j].pc = "idle"
          /\ SwitchRequest(i, ADMIN_SECRET_KEY, HandledUser, "human")
    \/ \E i \in Switches : SwitchUpsertOk(i)
    \/ \E s \in Sweeps : RevertRequest(s, ADMIN_SECRET_KEY)
    \/ \E s \in Sweeps : RevertSelectOk(s)
    \/ \E s \in Sweeps : RevertUpdateOk(s)
    \/ \E b \in Batches : WebhookRequest(b, "good", HandoffBody)
    \/ \E b \in Batches : TaskStart(b)
    \/ \E b \in Batches : GetModeReturn(b, 1, TRUE)
    \/ \E b \in Batches, o \in {"empty", "found"} : LookupReturn(b, 1, o)
    \/ \E b \in Batches : CompletionReturn(b, 1, TRUE)
    \/ \E b \in Batches : ReplyMessage(b, 1, TRUE)

\* a started handler runs to its end: the event loop resumes every coroutine
\* whose awaited call has answered, and runs every scheduled task
HandoffFairness ==
    /\ \A i \in Switches : WF_vars(SwitchUpsertOk(i))
    /\ \A s \in Sweeps : /\ WF_vars(RevertSelectOk(s))
                          /\ WF_vars(RevertUpdateOk(s))
    /\ \A b \in Batches :
          /\ WF_vars(TaskStart(b))
          /\ WF_vars(GetModeReturn(b, 1, TRUE))
          /\ WF_vars(\E o \in {"empty", "found"} : LookupReturn(b, 1, o))
          /\ WF_vars(CompletionReturn(b, 1, TRUE))
          /\ WF_vars(ReplyMessage(b, 1, TRUE))

SpecHandoff == Init /\ [][NextHandoff]_vars /\ HandoffFairness

\* the event of a request, once the request was accepted
HandoffEvent(b) == batch[b].events[1]
HasEvent(b) == batch[b].pc = "ok" /\ 1 \in DOMAIN batch[b].events
Replied(b) ==
    /\ HasEvent(b)
    /\ HandoffEvent(b).pc = "done"
    /\ Cardinality(Sent(b, HandoffEvent(b).reply_token)) = 1

\* C14: in the handoff scenario (one switch_mode(U1, human), every call
\* succeeding) a message whose mode read finds no row or mode ai is answered
\* with exactly one reply, a message whose mode read finds mode human is
\* dropped without a reply, the row is human once switch_mode has returned and
\* until a sweep reverts it, a sweep called more than timeout_minutes after
\* the switch leaves the row in mode ai, and from then on a dispatched message
\* is answered again.
C14_HandoffScenario ==
    /\ [](\A b \in Batches : HasEvent(b) =>
             LET e == HandoffEvent(b)
             IN /\ e.read = "human" =>
                      e.pc = "dropped" /\ Sent(b, e.reply_token) = {}
                /\ e.read \in {"norow", "ai"} =>
                      /\ e.pc \in {"lookup", "completion", "reply", "done"}
                      /\ e.pc = "done" <=> Sent(b, e.reply_token) # {}
                /\ e.atDispatch = "ai" => e.read \in {"none", "ai"})
    /\ [](\A i \in Switches : sw[i].pc = "r200" /\ sw[i].since = "none" =>
             rows[HandledUser].mode = "human")
    /\ [](\A s \in Sweeps : rv[s].pc = "r200" /\ HandledUser \in rv[s].users =>
             rows[HandledUser].mode = "ai")
    /\ \A b \in Batches :
          (HasEvent(b) /\ HandoffEvent(b).read \in {"norow", "ai"}) ~> Replied(b)
    /\ \A b \in Batches :
          (HasEvent(b) /\ HandoffEvent(b).atDispatch = "ai") ~> Replied(b)
    /\ \A s \in Sweeps :
          (/\ rv[s].pc = "select"
           /\ rows[HandledUser].present
           /\ rows[HandledUser].mode = "human"
           /\ rows[HandledUser].ts < rv[s].threshold)
          ~> (rows[HandledUser].mode = "ai")

\* a message answered after the sweep reverted the handed-over user
C14_Witness ==
    /\ \E b \in Batches :
          /\ Replied(b)
          /\ HandoffEvent(b).atDispatch = "ai"
          /\ HandoffEvent(b).read = "ai"
    /\ rows[HandledUser].present
    /\ rows[HandledUser].mode = "ai"
    /\ rows[HandledUser].ts # NoTs
    /\ \E s \in Sweeps : rv[s].pc = "r200" /\ HandledUser \in rv[s].users
    /\ \E i \in Switches :
          sw[i].pc = "r200" /\ sw[i].mode = "human" /\ sw[i].since = "ai"

\* ------------------------------------------------------ the running sweep
\* The operator's switches stop timeout_minutes before the end of the clock,
\* the sweep keeps being called with the key and the store answers its calls.
NextSweepLive ==
    \/ Tick
    \/ \E i \in Switches, u \in Users, m \in {"ai", "human"} :
          /\ clock + timeout_minutes < MaxClock
          /\ SwitchRequest(i, ADMIN_SECRET_KEY, u, m)
    \/ \E i \in Switches : SwitchUpsertOk(i)
    \/ \E i \in Switches : SwitchUpsertFail(i)
    \/ \E s \in Sweeps, hdr \in AdminHeaders : RevertRequest(s, hdr)
    \/ \E s \in Sweeps : RevertSelectOk(s)
    \/ \E s \in Sweeps : RevertUpdateOk(s)

\* time passes, the timer calls the sweep again and again, and a call whose
\* store request has been answered runs on
SweepFairness ==
    /\ WF_vars(Tick)
    /\ \A s \in Sweeps : /\ WF_vars(RevertRequest(s, ADMIN_SECRET_KEY))
                          /\ WF_vars(RevertSelectOk(s))
                          /\ WF_vars(RevertUpdateOk(s))

SpecSweepLive == Init /\ [][NextSweepLive]_vars /\ SweepFairness

\* C15: while the sweep keeps being called and its store calls succeed, time
\* advances and the switches to human have stopped, every row in mode human
\* is eventually in mode ai.
C15_HumanEventuallyReverted ==
    \A u \in Users :
        (rows[u].present /\ rows[u].mode = "human")
            ~> (rows[u].present /\ rows[u].mode = "ai")

\* a sweep has reverted a row that a switch had put in mode human
C15_Witness ==
    \E s \in Sweeps, u \in Users :
        /\ rv[s].pc = "r200"
        /\ u \in rv[s].users
        /\ rows[u].present
        /\ rows[u].mode = "ai"
        /\ rows[u].ts # NoTs
        /\ clock = MaxClock
        /\ \A i \in Switches : sw[i].pc # "upsert"

\* C16 (as stated): an admin call ending in a server error has changed no
\* row, and names no user as reverted.
C16_Original ==
    [][/\ \A i \in Switches :
            (sw[i].pc = "upsert" /\ sw'[i].pc = "r500") => rows' = rows
       /\ \A s \in Sweeps :
            (rv[s].pc \in {"select", "update"} /\ rv'[s].pc = "r500") =>
                (rows' = rows /\ reverted_users(rv'[s]) = {})]_vars

\* C16 (as amended): an admin call whose store call raises ends in a server
\* error and names no user as reverted. A failed select changes no row. A
\* failed write leaves the table either unchanged or exactly as that one
\* write asked: for switch_mode the target row holds the requested mode and
\* every other row is unchanged, for the sweep the selected rows are in mode
\* ai and every other row is unchanged.
C16_FailedCallAllOrNothing ==
    /\ [](\A s \in Sweeps : rv[s].pc = "r500" => reverted_users(rv[s]) = {})
    /\ [][/\ \A i \in Switches :
              (sw[i].pc = "upsert" /\ sw'[i].pc = "r500") =>
                  \/ rows' = rows
                  \/ /\ rows'[sw[i].user].present
                     /\ rows'[sw[i].user].mode = sw[i].mode
                     /\ (sw[i].mode = "human" =>
                            rows'[sw[i].user].ts = sw[i].ts)
                     /\ (sw[i].mode = "ai" =>
                            rows'[sw[i].user].ts = rows[sw[i].user].ts)
                     /\ \A u \in Users \ {sw[i].user} : rows'[u] = rows[u]
         /\ \A s \in Sweeps :
              /\ (rv[s].pc = "select" /\ rv'[s].pc = "r500") => rows' = rows
              /\ (rv[s].pc = "update" /\ rv'[s].pc = "r500") =>
                    \/ rows' = rows
                    \/ \A u \in Users :
                          rows'[u] = IF u \in rv[s].users /\ rows[u].present
                                     THEN [rows[u] EXCEPT !.mode = "ai"]
                                     ELSE rows[u]]_vars

\* a sweep's update failed, and a row it had selected is still in mode human
C16_Witness ==
    \E s \in Sweeps, u \in Users :
        /\ rv[s].pc = "r500"
        /\ u \in rv[s].users
        /\ rows[u].mode = "human"
        /\ \E i \in Switches : sw[i].pc = "r500" /\ sw[i].user # u

\* ------------------------------------------------- the writers of the table
\* Every caller at once: requests to the admin endpoints with any key for
\* either user, webhook requests carrying at most one event of either user,
\* and every outcome of the store calls.
WriterBodies ==
    UNION {[1..n -> [type : EventTypes, user : Users]] : n \in 0..1}

NextWriters ==
    \/ \E i \in Switches, hdr \in AdminHeaders, u \in Users, m \in {"ai", "human"} :
          SwitchRequest(i, hdr, u, m)
    \/ \E i \in Switches : SwitchUpsertOk(i)
    \/ \E i \in Switches : SwitchUpsertFail(i)
    \/ \E i \in Switches : SwitchUpsertLost(i)
    \/ \E s \in Sweeps, hdr \in AdminHeaders : RevertRequest(s, hdr)
    \/ \E s \in Sweeps : RevertSelectOk(s)
    \/ \E s \in Sweeps : RevertUpdateOk(s)
    \/ \E s \in Sweeps : RevertStoreFail(s)
    \/ \E s \in Sweeps : RevertUpdateLost(s)
    \/ \E b \in Batches, sig \in {"bad", "good"}, body \in WriterBodies :
          WebhookRequest(b, sig, body)
    \/ \E b \in Batches : TaskStart(b)
    \/ \E b \in Batches, ok \in BOOLEAN : GetModeReturn(b, 1, ok)
    \/ \E b \in Batches : LookupReturn(b, 1, "empty")
    \/ \E b \in Batches : ReplyMessage(b, 1, TRUE)

SpecWriters == InitDispatch /\ [][NextWriters]_vars

IsHuman(row) == row.present /\ row.mode = "human"

C18_WritersFrame ==
    [][/\ \A i \in Switches :
            (sw[i].pc = "upsert" /\ sw'[i].pc # "upsert") =>
                /\ \A u \in Users \ {sw[i].user} : rows'[u] = rows[u]
                /\ sw[i].mode = "ai" =>
                      rows'[sw[i].user].ts = rows[sw[i].user].ts
       /\ \A s \in Sweeps :
            (rv[s].pc = "update" /\ rv'[s].pc # "update") =>
                \A u \in Users :
                    /\ u \notin rv[s].users => rows'[u] = rows[u]
                    /\ rows'[u].ts = rows[u].ts
                    /\ rows'[u] # rows[u] =>
                          rows'[u] = [rows[u] EXCEPT !.mode = "ai"]
       /\ \A s \in Sweeps :
            (rv[s].pc = "select" /\ rv'[s].pc # "select") => rows' = rows
       /\ \A u \in Users : rows[u].present => rows'[u].present]_vars

\* a sweep reverted one user and left the other, who is in mode human, alone
C18_Witness ==
    \E s \in Sweeps :
        /\ rv[s].pc = "r200"
        /\ rv[s].users = {"u1"}
        /\ rows["u1"].present /\ rows["u1"].mode = "ai" /\ rows["u1"].ts # NoTs
        /\ rows["u2"].present /\ rows["u2"].mode = "human"
        /\ \E i \in Switches : sw[i].pc = "r200" /\ sw[i].user = "u2"

====
